---- MODULE Spec2Model ----
(***************************************************************************)
(* Model of profile-bee/src/html.rs: collapse_to_json, the single-pass     *)
(* builder that turns collapsed stack lines ("f1;f2;...;fN count") into a  *)
(* {name, value, children} tree, and its JSON serialisation.               *)
(*                                                                         *)
(* Text is modelled as sequences of one-character strings so that          *)
(* str::split, str::parse and string comparison are computed, not assumed. *)
(* Rc<RefCell<Stack>> handles are indices into the arena `heap`; the root  *)
(* is handle 1.  Rust's 0-based crumbs[i] is crumbs[i + 1] here.           *)
(*                                                                         *)
(* `stacks` holds the lines the `for` loop has taken from the slice so     *)
(* far; the rest of the slice is unconstrained until the loop reads it, so *)
(* every line sequence the feed allows is an input.  `feed` describes      *)
(* which lines may come: up to feed.max lines from feed.pool, or the       *)
(* lines of feed.script in order.                                          *)
(***************************************************************************)
EXTENDS Integers, Sequences, FiniteSets, TLC

VARIABLES feed, stacks, pc, names, count, depth, crumbs, heap, out

vars == <<feed, stacks, pc, names, count, depth, crumbs, heap, out>>

\* the loop index: the number of lines taken so far
idx == Len(stacks)

(* ---------------------------- bounds ----------------------------------- *)

MaxLines == 3
MaxFrames == 2

(* ---------------------------- text helpers ----------------------------- *)

Digits == <<"0", "1", "2", "3", "4", "5", "6", "7", "8", "9">>

IsDigit(c) == \E i \in 1..10 : Digits[i] = c

DigitVal(c) == (CHOOSE i \in 1..10 : Digits[i] = c) - 1

\* str::split(sep): the pieces between separators; never empty, "" gives [""]
RECURSIVE Split(_, _)
Split(s, sep) ==
    IF \E i \in 1..Len(s) : s[i] = sep
    THEN LET i == CHOOSE k \in 1..Len(s) :
                      s[k] = sep /\ \A j \in 1..(k - 1) : s[j] # sep
         IN  <<SubSeq(s, 1, i - 1)>> \o Split(SubSeq(s, i + 1, Len(s)), sep)
    ELSE <<s>>

\* the digit loop of str::parse::<usize>: acc = acc * 10 + digit, left to right
RECURSIVE ParseDigits(_, _)
ParseDigits(ds, acc) ==
    IF ds = <<>> THEN [ok |-> TRUE, val |-> acc]
    ELSE IF ~IsDigit(Head(ds)) THEN [ok |-> FALSE, val |-> 0]
    ELSE ParseDigits(Tail(ds), acc * 10 + DigitVal(Head(ds)))

\* v.parse::<usize>(): empty fails, a lone sign fails, a leading '+' is
\* accepted, '-' is not a digit of an unsigned type
ParseUsize(v) ==
    IF Len(v) = 0 THEN [ok |-> FALSE, val |-> 0]
    ELSE IF Len(v) = 1 /\ v[1] \in {"+", "-"} THEN [ok |-> FALSE, val |-> 0]
    ELSE IF v[1] = "+" THEN ParseDigits(Tail(v), 0)
    ELSE ParseDigits(v, 0)

ParseCount_zero(parts) ==
    IF Len(parts) < 2 THEN 1
    ELSE LET r == ParseUsize(parts[2]) IN IF r.ok THEN r.val ELSE 0

\* parts.next().and_then(|v| v.parse::<usize>().ok()).unwrap_or(1)
ParseCount(parts) ==
    IF Len(parts) < 2 THEN 1
    ELSE LET r == ParseUsize(parts[2]) IN IF r.ok THEN r.val ELSE 1

\* parts.next().map(|v| v.split(";")): the frame names of a line
ParseNames(parts) == Split(parts[1], ";")

(* ---------------------------- the tree --------------------------------- *)

Stack_new_one(name) == [name |-> name, value |-> 1, children |-> <<>>]

\* Stack::new(name): value 0 and no children by Default
Stack_new(name) == [name |-> name, value |-> 0, children |-> <<>>]

Truncate_short(v, n) == IF n - 1 >= Len(v) THEN v ELSE SubSeq(v, 1, n - 1)

\* Vec::truncate(n): keeps the first n elements, no effect when n >= len
Truncate(v, n) == IF n >= Len(v) THEN v ELSE SubSeq(v, 1, n)

self_value_off == FALSE

self_value == TRUE

(* ---------------------------- serialisation ---------------------------- *)

\* serde_json string escaping of one character
EscapeChar(c) ==
    IF c = "\"" THEN "\\\"" ELSE IF c = "\\" THEN "\\\\" ELSE c

RECURSIVE JsonStr(_)
JsonStr(s) == IF s = <<>> THEN "" ELSE EscapeChar(Head(s)) \o JsonStr(Tail(s))

\* #[derive(Serialize)] on Stack: keys name, value, children in field order
RECURSIVE ToJson(_, _)
RECURSIVE JsonList(_, _)
ToJson(h, n) ==
    "{\"name\":\"" \o JsonStr(h[n].name) \o "\",\"value\":" \o ToString(h[n].value)
        \o ",\"children\":[" \o JsonList(h, h[n].children) \o "]}"
JsonList_reversed(h, cs) ==
    IF cs = <<>> THEN ""
    ELSE IF Len(cs) = 1 THEN ToJson(h, cs[1])
    ELSE JsonList(h, Tail(cs)) \o "," \o ToJson(h, cs[1])

JsonList(h, cs) ==
    IF cs = <<>> THEN ""
    ELSE IF Len(cs) = 1 THEN ToJson(h, cs[1])
    ELSE ToJson(h, cs[1]) \o "," \o JsonList(h, Tail(cs))

(* ---------------------------- inputs ----------------------------------- *)

SeqsUpTo(S, n) == UNION {[1..k -> S] : k \in 0..n}

RECURSIVE Join(_)
Join(path) ==
    IF path = <<>> THEN <<>>
    ELSE IF Len(path) = 1 THEN path[1]
    ELSE path[1] \o <<";">> \o Join(Tail(path))

\* a line "<frames>" or "<frames> <tok>"; tok = <<"~">> stands for no token
MkLine(path, tok) ==
    IF tok = <<"~">> THEN Join(path) ELSE Join(path) \o <<" ">> \o tok

LinesOf(Names, Toks) ==
    {MkLine(p, t) : p \in SeqsUpTo(Names, MaxFrames), t \in Toks}

FrameNames == {<<"a">>, <<"b">>}

\* lines without a count, and two lines with the count 2
Lines ==
    LinesOf(FrameNames, {<<"~">>})
        \cup {<<"a", " ", "2">>, <<"a", ";", "b", " ", "2">>}

\* the input of test_serialization
ScenarioA ==
    << <<"a", " ", "1">>,
       <<"a", ";", "b", " ", "1">>,
       <<"a", ";", "b", " ", "1">>,
       <<"a", ";", "b", ";", "c", " ", "1">>,
       <<"a", ";", "b", ";", "c", ";", "d", " ", "1">>,
       <<"a", ";", "b", ";", "e", " ", "3">>,
       <<"f", ";", "g", " ", "1">> >>

(* ---------------------------- the builder ------------------------------ *)

\* let root = Stack::new(""); let mut crumbs = vec![root.clone()];
InitBuilder ==
    /\ stacks = <<>>
    /\ pc = "next"
    /\ names = <<>>
    /\ count = 0
    /\ depth = 0
    /\ heap = <<Stack_new(<<>>)>>
    /\ crumbs = <<1>>
    /\ out = ""

Init ==
    /\ feed = [pool |-> Lines, max |-> MaxLines, sorted |-> FALSE, script |-> ScenarioA]
    /\ InitBuilder

\* the text of the frame-path field: everything before the first space
PathField(line) ==
    IF \E i \in 1..Len(line) : line[i] = " "
    THEN SubSeq(line, 1, (CHOOSE k \in 1..Len(line) :
                     line[k] = " " /\ \A j \in 1..(k - 1) : line[j] # " ") - 1)
    ELSE line

\* character codes (ASCII) of the characters the inputs use
Code(c) ==
    CASE c = " " -> 32 [] c = "+" -> 43 [] c = "-" -> 45 [] c = "." -> 46
      [] c = "0" -> 48 [] c = "1" -> 49 [] c = "2" -> 50 [] c = "3" -> 51
      [] c = "5" -> 53 [] c = "7" -> 55 [] c = ":" -> 58 [] c = ";" -> 59
      [] c = "a" -> 97 [] c = "b" -> 98 [] c = "c" -> 99 [] c = "d" -> 100
      [] c = "e" -> 101 [] c = "f" -> 102 [] c = "g" -> 103 [] c = "x" -> 120

\* s <= t in character-by-character (lexicographic) order
RECURSIVE StrLeq(_, _)
StrLeq(s, t) ==
    IF s = <<>> THEN TRUE
    ELSE IF t = <<>> THEN FALSE
    ELSE IF Code(Head(s)) # Code(Head(t)) THEN Code(Head(s)) < Code(Head(t))
    ELSE StrLeq(Tail(s), Tail(t))

\* the lines the slice may hold at the loop's next position; a sorted feed
\* ("a sorted stackcollapsed format") only continues in string order
Offered ==
    {l \in (IF idx < feed.max THEN feed.pool ELSE {}) :
        feed.sorted => (idx = 0 \/ StrLeq(PathField(stacks[idx]), PathField(l)))}
        \cup (IF idx < Len(feed.script) /\ stacks = SubSeq(feed.script, 1, idx)
              THEN {feed.script[idx + 1]} ELSE {})

\* for stack in stacks { split(' '); names; count; depth = 0
NextStack ==
    /\ pc = "next"
    /\ \E stack \in Offered :
         /\ stacks' = Append(stacks, stack)
         /\ LET parts == Split(stack, " ")
            IN  IF Len(parts) = 0
                THEN /\ pc' = "panic"
                     /\ UNCHANGED <<names, count>>
                ELSE /\ pc' = "walk"
                     /\ names' = ParseNames(parts)
                     /\ count' = ParseCount(parts)
    /\ depth' = 0
    /\ UNCHANGED <<feed, crumbs, heap, out>>

Diverges_length(name, d) == d >= Len(crumbs)

Diverges_parent(name, d) == d >= Len(crumbs) \/ name # heap[crumbs[d]].name

\* depth >= crumbs.len() || name != crumbs[depth].borrow().name
Diverges(name, d) == d >= Len(crumbs) \/ name # heap[crumbs[d + 1]].name

PushChild_only(cs, node) == <<node>>

PushChild_front(cs, node) == <<node>> \o cs

\* children.push(node.clone())
PushChild(cs, node) == Append(cs, node)

\* the `new flow` block: truncate, create the node, push it to the parent's
\* children and onto crumbs; crumbs[depth - 1] panics when out of bounds
NewFlow(name, d) ==
    LET cut == Truncate(crumbs, d)
        node == Len(heap) + 1
    IN  IF d - 1 >= Len(cut) \/ d - 1 < 0
        THEN /\ pc' = "panic"
             /\ crumbs' = cut
             /\ heap' = Append(heap, Stack_new(name))
        ELSE /\ pc' = "walk"
             /\ heap' = [Append(heap, Stack_new(name)) EXCEPT
                            ![cut[d]].children = PushChild(@, node)]
             /\ crumbs' = Append(cut, node)

\* one iteration of `while let Some(name) = names.next()`
WalkName ==
    /\ pc = "walk"
    /\ names # <<>>
    /\ LET name == Head(names)
           d == depth + 1
       IN  /\ depth' = d
           /\ names' = Tail(names)
           /\ IF Diverges(name, d)
              THEN NewFlow(name, d)
              ELSE UNCHANGED <<pc, crumbs, heap>>
    /\ UNCHANGED <<feed, stacks, count, out>>

\* names exhausted: if depth + 1 != crumbs.len() { crumbs.truncate(depth) }
PostTruncate ==
    /\ pc = "walk"
    /\ names = <<>>
    /\ crumbs' = IF depth + 1 # Len(crumbs) THEN Truncate(crumbs, depth) ELSE crumbs
    /\ pc' = "apply"
    /\ UNCHANGED <<feed, stacks, names, count, depth, heap, out>>

RECURSIVE AddAll(_, _, _)
AddAll(h, cs, c) ==
    IF cs = <<>> THEN h
    ELSE AddAll([h EXCEPT ![Head(cs)].value = @ + c], Tail(cs), c)

\* if self_value { crumbs.last().unwrap_or_else(unreachable).value += count }
\* else { for node in crumbs.iter() { node.value += count } }
ApplyCount ==
    /\ pc = "apply"
    /\ IF self_value
       THEN IF crumbs = <<>>
            THEN /\ pc' = "panic"
                 /\ heap' = heap
            ELSE /\ pc' = "next"
                 /\ heap' = [heap EXCEPT ![crumbs[Len(crumbs)]].value = @ + count]
       ELSE /\ pc' = "next"
            /\ heap' = AddAll(heap, crumbs, count)
    /\ UNCHANGED <<feed, stacks, names, count, depth, crumbs, out>>

\* the slice is exhausted: serde_json::to_string(&root)
Serialize ==
    /\ pc = "next"
    /\ out' = ToJson(heap, 1)
    /\ pc' = "done"
    /\ UNCHANGED <<feed, stacks, names, count, depth, crumbs, heap>>

Next == NextStack \/ WalkName \/ PostTruncate \/ ApplyCount \/ Serialize

Spec == Init /\ [][Next]_vars

TypeOK ==
    /\ pc \in {"next", "walk", "apply", "done", "panic"}
    /\ idx <= feed.max \/ idx <= Len(feed.script)
    /\ \A i \in 1..Len(crumbs) : crumbs[i] \in 1..Len(heap)

(* ---------------------------- reading the input ------------------------ *)

\* the frame names and the count the builder derives from a line
FramesOf(line) == ParseNames(Split(line, " "))

CountOf(line) == ParseCount(Split(line, " "))

IsPrefix(p, q) == Len(p) <= Len(q) /\ SubSeq(q, 1, Len(p)) = p

Between == pc \in {"next", "done"}

RECURSIVE SumCounts(_)
SumCounts(n) == IF n = 0 THEN 0 ELSE SumCounts(n - 1) + CountOf(stacks[n])

\* sum of the counts of the first n records whose frames start with path p
RECURSIVE SumThrough(_, _)
SumThrough(p, n) ==
    IF n = 0 THEN 0
    ELSE SumThrough(p, n - 1)
         + (IF IsPrefix(p, FramesOf(stacks[n])) THEN CountOf(stacks[n]) ELSE 0)

\* records sharing a frame-path prefix appear consecutively (first n records)
Grouped(n) ==
    \A i, j, k \in 1..n :
        (i < j /\ j < k) =>
            \A d \in 1..Len(FramesOf(stacks[i])) :
                LET p == SubSeq(FramesOf(stacks[i]), 1, d)
                IN  IsPrefix(p, FramesOf(stacks[k])) => IsPrefix(p, FramesOf(stacks[j]))

\* no record's frame path is a proper prefix of an earlier record's
ShortFirst(n) ==
    \A i, j \in 1..n :
        i < j => ~(IsPrefix(FramesOf(stacks[j]), FramesOf(stacks[i]))
                   /\ FramesOf(stacks[j]) # FramesOf(stacks[i]))

PrefixSorted(n) == Grouped(n) /\ ShortFirst(n)

(* ---------------------------- reading the tree ------------------------- *)

NodeIds == 1..Len(heap)

InChildren(n, p) == \E i \in 1..Len(heap[p].children) : heap[p].children[i] = n

Parent(n) == CHOOSE p \in NodeIds : InChildren(n, p)

RECURSIVE PathTo(_)
PathTo(n) == IF n = 1 THEN <<>> ELSE Append(PathTo(Parent(n)), heap[n].name)

NoDupSiblings ==
    \A p \in NodeIds : \A i, j \in 1..Len(heap[p].children) :
        i # j => heap[heap[p].children[i]].name # heap[heap[p].children[j]].name

RECURSIVE SumValues(_)
SumValues(n) == IF n = 0 THEN 0 ELSE SumValues(n - 1) + heap[n].value

(* ---------------------------- C1 --------------------------------------- *)

\* C1: when records sharing a frame-path prefix are consecutive, after all
\* records are consumed every non-root node at depth d has value equal to the
\* sum of the counts of the records whose first d frames are the node's path.
C1_Cumulative ==
    (pc = "done" /\ Grouped(Len(stacks))) =>
        \A n \in NodeIds \ {1} : heap[n].value = SumThrough(PathTo(n), Len(stacks))

(* ---------------------------- C2 --------------------------------------- *)

\* C2: for any input, after every processed record the root's value equals
\* the sum of the counts of the records processed so far.
C2_RootTotal == Between => heap[1].value = SumCounts(idx)

(* ---------------------------- C3 --------------------------------------- *)

\* C3: whenever records sharing a frame-path prefix are consecutive (a shorter
\* path may come before or after a longer one extending it), no node has two
\* children with the same name.
C3_SiblingsDistinct == (Between /\ Grouped(idx)) => NoDupSiblings

(* ---------------------------- C4 --------------------------------------- *)

\* the first n records are in lexicographic order of their frame-path strings
StringSorted(n) ==
    \A i \in 1..n : i < n => StrLeq(PathField(stacks[i]), PathField(stacks[i + 1]))

\* every character of every frame name orders after ';'
NamesAboveSemicolon(n) ==
    \A i \in 1..n : \A k \in 1..Len(PathField(stacks[i])) :
        LET c == PathField(stacks[i])[k] IN c # ";" => Code(c) > Code(";")

DotNames == {<<"a">>, <<"a", ".">>, <<"a", "b">>}

InitSorted ==
    /\ feed = [pool |-> LinesOf(DotNames, {<<"~">>}), max |-> MaxLines,
               sorted |-> TRUE, script |-> <<>>]
    /\ InitBuilder

SpecSorted == InitSorted /\ [][Next]_vars

\* C4 (as claimed): string-sorted input, frame names of any characters other
\* than ';' and space, never yields two siblings with the same name.
C4_SortedAnyChars == (Between /\ StringSorted(idx)) => NoDupSiblings

\* C4 (amended): string-sorted input whose frame names use only characters
\* that order after ';' never yields two siblings with the same name.
C4_SortedDistinct ==
    (Between /\ StringSorted(idx) /\ NamesAboveSemicolon(idx)) => NoDupSiblings

C4_Witness ==
    /\ pc = "done"
    /\ Len(stacks) = 3
    /\ StringSorted(3)
    /\ NamesAboveSemicolon(3)
    /\ \E p \in NodeIds : Len(heap[p].children) = 2
    /\ \E n \in NodeIds : Len(PathTo(n)) = 2

(* ---------------------------- C5 --------------------------------------- *)

NodePaths == {PathTo(n) : n \in NodeIds \ {1}}

\* the non-empty prefixes of the frame paths of the first n records
RecordPrefixes(n) ==
    UNION {{SubSeq(FramesOf(stacks[i]), 1, d) : d \in 1..Len(FramesOf(stacks[i]))} :
               i \in 1..n}

RECURSIVE FirstSeen(_)
FirstSeen(s) ==
    IF s = <<>> THEN <<>>
    ELSE LET r == FirstSeen(SubSeq(s, 1, Len(s) - 1))
             x == s[Len(s)]
         IN  IF \E i \in 1..Len(r) : r[i] = x THEN r ELSE Append(r, x)

\* the frames that follow path p in the first n records, in input order
RECURSIVE NextFrames(_, _)
NextFrames(p, n) ==
    IF n = 0 THEN <<>>
    ELSE LET f == FramesOf(stacks[n])
         IN  IF IsPrefix(p, f) /\ Len(f) > Len(p)
             THEN Append(NextFrames(p, n - 1), f[Len(p) + 1])
             ELSE NextFrames(p, n - 1)

ChildNames(n) == [i \in 1..Len(heap[n].children) |-> heap[heap[n].children[i]].name]

FirstSeenOrder ==
    (Between /\ PrefixSorted(idx)) =>
        \A n \in NodeIds : ChildNames(n) = FirstSeen(NextFrames(PathTo(n), idx))

\* a step keeps every node's name and only appends to its children
AppendOnly ==
    \A n \in NodeIds :
        /\ n \in 1..Len(heap')
        /\ heap'[n].name = heap[n].name
        /\ IsPrefix(heap[n].children, heap'[n].children)

\* C6: under sorted input the children of every node are in the order their
\* names were first met, and no step reorders, removes or renames a child:
\* children lists only grow at the end.
C6_ChildOrder == [][AppendOnly]_vars /\ []FirstSeenOrder

C6_Witness ==
    /\ pc = "done"
    /\ Len(stacks) = 3
    /\ PrefixSorted(3)
    /\ \E p \in NodeIds \ {1} : Len(heap[p].children) = 2
    /\ FramesOf(stacks[2]) = FramesOf(stacks[1])

(* ---------------------------- C7 --------------------------------------- *)

\* the record being processed has an empty frame-path field
EmptyPathRecord ==
    /\ pc \in {"walk", "apply"}
    /\ idx >= 1
    /\ PathField(stacks[idx]) = <<>>

\* C7: a record whose frame-path field is empty creates no node, and its
\* count is added to the root and to no other node.
C7_EmptyPathToRoot ==
    [][EmptyPathRecord =>
         /\ Len(heap') = Len(heap)
         /\ pc = "apply" =>
                /\ heap'[1].value = heap[1].value + count
                /\ \A n \in NodeIds \ {1} : heap'[n].value = heap[n].value]_vars

(* ---------------------------- C8 --------------------------------------- *)

MaxParseLines == 2

ParseTokens ==
    { <<"~">>, <<>>, <<"3">>, <<"1", "2">>, <<"0", "0", "7">>, <<"0">>,
      <<"+", "5">>, <<"-", "1">>, <<"+">>, <<"x">>, <<"1", "x">>,
      <<"2", " ", "5">>, <<" ", "5">> }

ParseLines == {MkLine(p, t) : p \in {<<>>, <<<<"a">>>>}, t \in ParseTokens}

InitParse ==
    /\ feed = [pool |-> ParseLines, max |-> MaxParseLines, sorted |-> FALSE,
               script |-> <<>>]
    /\ InitBuilder

SpecParse == InitParse /\ [][Next]_vars

HasToken(line) == \E i \in 1..Len(line) : line[i] = " "

\* the count token: the text between the first space and the next one
TokenOf(line) ==
    LET rest == SubSeq(line, Len(PathField(line)) + 2, Len(line))
    IN  PathField(rest)

\* an optional '+' followed by at least one decimal digit
IsNonNegInt(t) ==
    LET body == IF Len(t) > 0 /\ t[1] = "+" THEN Tail(t) ELSE t
    IN  Len(body) > 0 /\ \A i \in 1..Len(body) : IsDigit(body[i])

RECURSIVE Pow10(_)
Pow10(k) == IF k = 0 THEN 1 ELSE 10 * Pow10(k - 1)

\* the value of a decimal numeral by positional weights, a '+' weighing 0
RECURSIVE DecimalValue(_)
DecimalValue(t) ==
    IF t = <<>> THEN 0
    ELSE (IF IsDigit(Head(t)) THEN DigitVal(Head(t)) * Pow10(Len(t) - 1) ELSE 0)
         + DecimalValue(Tail(t))

ExpectedCount(line) ==
    IF HasToken(line) /\ IsNonNegInt(TokenOf(line))
    THEN DecimalValue(TokenOf(line))
    ELSE 1

RECURSIVE SumExpected(_)
SumExpected(n) == IF n = 0 THEN 0 ELSE SumExpected(n - 1) + ExpectedCount(stacks[n])

\* C8: the count of every line is the value of its count token when the token
\* is a non-negative decimal integer and 1 otherwise; no line raises an error
\* or is skipped: every record's count ends up in the tree.
C8_CountLenient ==
    /\ pc # "panic"
    /\ (pc \in {"walk", "apply"}) => count = ExpectedCount(stacks[idx])
    /\ Between => SumValues(Len(heap)) = SumExpected(idx)

C8_Witness ==
    /\ pc = "done"
    /\ Len(stacks) = 2
    /\ HasToken(stacks[1]) /\ ~IsNonNegInt(TokenOf(stacks[1]))
    /\ ~HasToken(stacks[2])
    /\ SumValues(Len(heap)) = 2

(* ---------------------------- C9 --------------------------------------- *)

\* C9: for every input sequence, grouped or not, no step of the build fails:
\* crumbs[depth] and crumbs[depth - 1] are in bounds, the path is not empty
\* when its last entry is taken, and the first token of a line always exists;
\* a build whose input is exhausted has produced its output.
C9_NeverFails ==
    /\ pc # "panic"
    /\ depth <= Len(crumbs)
    /\ Len(crumbs) >= 1
    /\ (pc = "done") => out # ""

C9_Witness ==
    /\ pc = "done"
    /\ Len(stacks) = 3
    /\ ~Grouped(3)
    /\ Len(FramesOf(stacks[2])) < Len(FramesOf(stacks[1]))
    /\ Len(FramesOf(stacks[3])) > Len(FramesOf(stacks[2]))

(* ---------------------------- C10 -------------------------------------- *)

\* C10: the tree always has exactly one root, named by the empty string: node
\* 1 is in no children list and every other node is in one; with no input
\* records the result is the root alone, value 0, no children, serialised as
\* {"name":"","value":0,"children":[]}.
C10_RootAlways ==
    /\ Len(heap) >= 1
    /\ heap[1].name = <<>>
    /\ \A p \in NodeIds : ~InChildren(1, p)
    /\ \A n \in NodeIds \ {1} : \E p \in NodeIds : InChildren(n, p)
    /\ (stacks = <<>>) => heap = <<[name |-> <<>>, value |-> 0, children |-> <<>>]>>
    /\ (stacks = <<>> /\ pc = "done") =>
           out = "{\"name\":\"\",\"value\":0,\"children\":[]}"

C10_Witness == stacks = <<>> /\ pc = "done" /\ out # ""

(* ---------------------------- C11 -------------------------------------- *)

\* the depth-first tour of the subtree of n, from its i-th child on: an open
\* event when a node is entered (i = 0), a close event when it is left
RECURSIVE Tour(_, _)
Tour(n, i) ==
    IF i = 0 THEN <<[open |-> TRUE, node |-> n]>> \o Tour(n, 1)
    ELSE IF i > Len(heap[n].children) THEN <<[open |-> FALSE, node |-> n]>>
    ELSE Tour(heap[n].children[i], 0) \o Tour(n, i + 1)

\* the text of the first k events of tour t: an object opens with its name
\* and value and the start of its children array, and is separated by a comma
\* from a sibling closed just before it
RECURSIVE TourText(_, _)
TourText(t, k) ==
    IF k = 0 THEN ""
    ELSE TourText(t, k - 1) \o
         (IF t[k].open
          THEN (IF k > 1 /\ ~t[k - 1].open THEN "," ELSE "")
               \o "{\"name\":\"" \o JsonStr(heap[t[k].node].name)
               \o "\",\"value\":" \o ToString(heap[t[k].node].value)
               \o ",\"children\":["
          ELSE "]}")

\* what the code prints for the input of test_serialization
ScenarioA_Out ==
    "{\"name\":\"\",\"value\":0,\"children\":[{\"name\":\"a\",\"value\":1,\"children\":[{\"name\":\"b\",\"value\":2,\"children\":[{\"name\":\"c\",\"value\":1,\"children\":[{\"name\":\"d\",\"value\":1,\"children\":[]}]},{\"name\":\"e\",\"value\":3,\"children\":[]}]}]},{\"name\":\"f\",\"value\":0,\"children\":[{\"name\":\"g\",\"value\":1,\"children\":[]}]}]}"

SerializedShape ==
    (pc = "done") =>
        /\ out = TourText(Tour(1, 0), 2 * Len(heap))
        /\ (stacks = ScenarioA) => out = ScenarioA_Out

\* the step that serialises leaves the tree and the path as they were
SerializeReadsOnly == (pc = "next" /\ pc' = "done") => (heap' = heap /\ crumbs' = crumbs)

\* C11: the output lists, for every node, the keys name, value, children in
\* that order, the children in stored order, depth-first; serialising does not
\* change the tree, so the output is that of the tree as it stands.
C11_Serialization == [][SerializeReadsOnly]_vars /\ []SerializedShape

C11_Witness ==
    /\ pc = "done"
    /\ \E p \in NodeIds : Len(heap[p].children) = 2
    /\ \E n \in NodeIds : Len(PathTo(n)) = 2
    /\ \E n \in NodeIds : heap[n].value = 2

(* ---------------------------- C13 -------------------------------------- *)

PathNames == [i \in 1..(Len(crumbs) - 1) |-> heap[crumbs[i + 1]].name]

\* C13: once a record with n frames has been walked and the post-loop
\* truncation is done, before its count is applied, the path has n + 1
\* entries: the root followed by the nodes named by the record's frames.
C13_PathPositioned ==
    (pc = "apply") =>
        /\ Len(crumbs) = Len(FramesOf(stacks[idx])) + 1
        /\ crumbs[1] = 1
        /\ PathNames = FramesOf(stacks[idx])

(* ---------------------------- C14 -------------------------------------- *)

\* following parents from n reaches the root within k steps
RECURSIVE Climbs(_, _)
Climbs(n, k) == n = 1 \/ (k > 0 /\ Climbs(Parent(n), k - 1))

RECURSIVE SlotCount(_)
SlotCount(n) == IF n = 0 THEN 0 ELSE SlotCount(n - 1) + Len(heap[n].children)

\* every non-root node is in a children list and there are as many slots as
\* non-root nodes, so each is in exactly one list exactly once
TreeShape ==
    /\ \A p \in NodeIds : ~InChildren(1, p)
    /\ \A n \in NodeIds \ {1} : \E p \in NodeIds : InChildren(n, p)
    /\ SlotCount(Len(heap)) = Len(heap) - 1
    /\ \A n \in NodeIds : Climbs(n, Len(heap))
    /\ \A i \in 1..Len(crumbs) : crumbs[i] \in NodeIds

\* a step keeps every node and every child where it is
NeverRemoved ==
    /\ Len(heap') >= Len(heap)
    /\ \A p \in NodeIds : \A i \in 1..Len(heap[p].children) :
           /\ i <= Len(heap'[p].children)
           /\ heap'[p].children[i] = heap[p].children[i]

\* C14: the nodes form a rooted tree at every step: each non-root node is in
\* exactly one children list exactly once and is never removed from it, the
\* root is in none, there is no cycle, and the path refers to tree nodes only.
C14_TreeShape == [][NeverRemoved]_vars /\ []TreeShape

C14_Witness ==
    /\ pc = "done"
    /\ Len(heap) >= 5
    /\ ~NoDupSiblings
    /\ \E n \in NodeIds : Len(PathTo(n)) = 2

(* ---------------------------- C15 -------------------------------------- *)

\* lines with counts 0, 1 (no token), 2 and 3, over two names
ValueLines ==
    LinesOf({<<"a">>}, {<<"~">>, <<"0">>, <<"3">>})
        \cup {<<"b">>, <<"a", ";", "b", " ", "2">>}

InitValues ==
    /\ feed = [pool |-> ValueLines, max |-> MaxLines, sorted |-> FALSE, script |-> <<>>]
    /\ InitBuilder

SpecValues == InitValues /\ [][Next]_vars

\* sum of the counts of the first n records whose frames are exactly path p
RECURSIVE SumExact(_, _)
SumExact(p, n) ==
    IF n = 0 THEN 0
    ELSE SumExact(p, n - 1)
         + (IF FramesOf(stacks[n]) = p THEN CountOf(stacks[n]) ELSE 0)

Changed == {n \in NodeIds : heap'[n].value # heap[n].value}

C17_PathChain ==
    /\ Len(crumbs) >= 1
    /\ crumbs[1] = 1
    /\ \A i \in 2..Len(crumbs) :
           LET cs == heap[crumbs[i - 1]].children
           IN  cs # <<>> /\ cs[Len(cs)] = crumbs[i]

C17_Witness ==
    /\ pc = "next"
    /\ Len(crumbs) = 3
    /\ Len(heap[1].children) = 2
    /\ ~Grouped(idx)

====
